---- MODULE Spec2Model ----
(***************************************************************************)
(* A model of krypy/deflation.py: the oblique deflation projector          *)
(* (ObliqueProjection) and the Arnoldi relation builder (Arnoldifyer).     *)
(*                                                                         *)
(* Numbers are exact rationals <<numerator, denominator>>; matrices carry  *)
(* their shape, so that every numpy operation either yields a matrix or    *)
(* the exception numpy raises (a shape mismatch is "ValueError", a         *)
(* singular or non-square solve is "LinAlgError", a bad index is           *)
(* "IndexError").  The entries are real, so conj() is the identity and     *)
(* .T.conj() is the transpose.  A square root that is not rational yields  *)
(* "Irrational"; the inputs of the model are those on which every square   *)
(* root the program takes is rational.                                     *)
(***************************************************************************)
EXTENDS Integers, Sequences, FiniteSets, TLC

\* ------------------------------------------------------------ rationals

Abs(i) == IF i < 0 THEN -i ELSE i

RECURSIVE Gcd(_, _)
Gcd(a, b) == IF b = 0 THEN a ELSE Gcd(b, a % b)

Rat(n, d) ==
  LET g == Gcd(Abs(n), Abs(d))
      s == IF d < 0 THEN -1 ELSE 1
  IN  <<(s * n) \div g, (s * d) \div g>>

RInt(i) == <<i, 1>>
RZero == <<0, 1>>
ROne == <<1, 1>>
RAdd(x, y) == Rat(x[1] * y[2] + y[1] * x[2], x[2] * y[2])
RNeg(x) == <<-x[1], x[2]>>
RSub(x, y) == RAdd(x, RNeg(y))
RMul(x, y) == Rat(x[1] * y[1], x[2] * y[2])
RDiv(x, y) == Rat(x[1] * y[2], x[2] * y[1])
RAbs(x) == <<Abs(x[1]), x[2]>>
RLess(x, y) == x[1] * y[2] < y[1] * x[2]

IsSquare(n) == \E k \in 0..n : k * k = n
ISqrt(n) == CHOOSE k \in 0..n : k * k = n
\* the square root of a rational x >= 0, when it is rational
HasRSqrt(x) == IsSquare(x[1]) /\ IsSquare(x[2])
RSqrt(x) == <<ISqrt(x[1]), ISqrt(x[2])>>

\* ------------------------------------------------------------- matrices

\* a matrix: its shape and its rows, held as evaluated sequences
Mat(r, c, a) ==
  [err |-> "", r |-> r, c |-> c,
   a |-> SubSeq([i \in 1..r |-> SubSeq(a[i], 1, c)], 1, r)]
Err(kind) == [err |-> kind, r |-> 0, c |-> 0, a |-> <<>>]
IsOk(A) == A.err = ""
\* the first exception among the operands, as Python evaluates them in order
FirstErr(As) == LET i == CHOOSE i \in 1..Len(As) :
                            /\ ~IsOk(As[i])
                            /\ \A j \in 1..(i-1) : IsOk(As[j])
                IN  As[i]
AllOk(As) == \A i \in 1..Len(As) : IsOk(As[i])

\* a matrix of integers given by rows, with its column count (which an empty
\* list of rows does not tell)
IntMat(c, rows) ==
  Mat(Len(rows), c, [i \in 1..Len(rows) |-> [j \in 1..c |-> RInt(rows[i][j])]])

zeros(r, c) == Mat(r, c, [i \in 1..r |-> [j \in 1..c |-> RZero]])
eye2(r, c) == Mat(r, c, [i \in 1..r |-> [j \in 1..c |->
                           IF i = j THEN ROne ELSE RZero]])
eye(n) == eye2(n, n)
Scalar(x) == Mat(1, 1, <<<<x>>>>)

\* A.T.conj()
TC(A) == IF ~IsOk(A) THEN A
         ELSE Mat(A.c, A.r, [i \in 1..A.c |-> [j \in 1..A.r |-> A.a[j][i]]])

RECURSIVE RSum(_, _)
RSum(f, k) == IF k = 0 THEN RZero ELSE RAdd(RSum(f, k - 1), f[k])

\* A.dot(B)
Dot(A, B) ==
  IF ~AllOk(<<A, B>>) THEN FirstErr(<<A, B>>)
  ELSE IF A.c # B.r THEN Err("ValueError")
  ELSE Mat(A.r, B.c, [i \in 1..A.r |-> [j \in 1..B.c |->
         RSum([k \in 1..A.c |-> RMul(A.a[i][k], B.a[k][j])], A.c)]])

\* numpy broadcasting of two 2-d shapes
Broadcastable(A, B) ==
  /\ (A.r = B.r \/ A.r = 1 \/ B.r = 1)
  /\ (A.c = B.c \/ A.c = 1 \/ B.c = 1)
BDim(x, y) == IF x = 1 THEN y ELSE x
BIdx(i, dim) == IF dim = 1 THEN 1 ELSE i
Elementwise(Op(_, _), A, B) ==
  IF ~AllOk(<<A, B>>) THEN FirstErr(<<A, B>>)
  ELSE IF ~Broadcastable(A, B) THEN Err("ValueError")
  ELSE LET r == BDim(A.r, B.r)
           c == BDim(A.c, B.c)
       IN  Mat(r, c, [i \in 1..r |-> [j \in 1..c |->
             Op(A.a[BIdx(i, A.r)][BIdx(j, A.c)],
                B.a[BIdx(i, B.r)][BIdx(j, B.c)])]])
Add(A, B) == Elementwise(RAdd, A, B)
Sub(A, B) == Elementwise(RSub, A, B)
Neg(A) == IF ~IsOk(A) THEN A
          ELSE Mat(A.r, A.c, [i \in 1..A.r |-> [j \in 1..A.c |-> RNeg(A.a[i][j])]])
Scale(x, A) == IF ~IsOk(A) THEN A
               ELSE Mat(A.r, A.c, [i \in 1..A.r |-> [j \in 1..A.c |->
                      RMul(x, A.a[i][j])]])

\* numpy.c_[A, B] and one block row of numpy.bmat
HCat(A, B) ==
  IF ~AllOk(<<A, B>>) THEN FirstErr(<<A, B>>)
  ELSE IF A.r # B.r THEN Err("ValueError")
  ELSE Mat(A.r, A.c + B.c, [i \in 1..A.r |-> [j \in 1..(A.c + B.c) |->
         IF j <= A.c THEN A.a[i][j] ELSE B.a[i][j - A.c]]])
\* numpy.r_[A, B] and the stacking of the block rows of numpy.bmat
VCat(A, B) ==
  IF ~AllOk(<<A, B>>) THEN FirstErr(<<A, B>>)
  ELSE IF A.c # B.c THEN Err("ValueError")
  ELSE Mat(A.r + B.r, A.c, [i \in 1..(A.r + B.r) |-> [j \in 1..A.c |->
         IF i <= A.r THEN A.a[i][j] ELSE B.a[i - A.r][j]]])
\* numpy.bmat([[A, B], [C, D]]): every block row is joined, then they are stacked
Bmat22(A, B, C, D) ==
  IF ~AllOk(<<A, B, C, D>>) THEN FirstErr(<<A, B, C, D>>)
  ELSE VCat(HCat(A, B), HCat(C, D))

Min(x, y) == IF x < y THEN x ELSE y
\* A[:k, :]   and   A[:, :k]   (a slice past the end is cut, as in numpy)
Rows(A, k) == IF ~IsOk(A) THEN A
              ELSE LET r == Min(k, A.r)
                   IN  Mat(r, A.c, [i \in 1..r |-> A.a[i]])
Cols(A, k) == IF ~IsOk(A) THEN A
              ELSE LET c == Min(k, A.c)
                   IN  Mat(A.r, c, [i \in 1..A.r |-> [j \in 1..c |-> A.a[i][j]]])
\* A[[-1], :]   and   A[:, [-1]]
LastRow(A) == IF ~IsOk(A) THEN A
              ELSE IF A.r = 0 THEN Err("IndexError")
              ELSE Mat(1, A.c, <<A.a[A.r]>>)
LastCol(A) == IF ~IsOk(A) THEN A
              ELSE IF A.c = 0 THEN Err("IndexError")
              ELSE Mat(A.r, 1, [i \in 1..A.r |-> <<A.a[i][A.c]>>])
\* A[:, p] for a list p of column indices (counted from 1)
PickCols(A, p) == IF ~IsOk(A) THEN A
                  ELSE Mat(A.r, Len(p), [i \in 1..A.r |-> [j \in 1..Len(p) |->
                         A.a[i][p[j]]]])

\* the matrix without row i and column j
Minor(A, i, j) ==
  Mat(A.r - 1, A.c - 1, [p \in 1..(A.r - 1) |-> [q \in 1..(A.c - 1) |->
    A.a[IF p < i THEN p ELSE p + 1][IF q < j THEN q ELSE q + 1]]])
RECURSIVE Det(_)
Det(A) ==
  IF A.r = 0 THEN ROne
  ELSE RSum([j \in 1..A.c |->
              RMul(IF j % 2 = 1 THEN A.a[1][j] ELSE RNeg(A.a[1][j]),
                   Det(Minor(A, 1, j)))], A.c)
Inverse(A) ==
  LET dt == Det(A)
  IN  Mat(A.r, A.c, [i \in 1..A.r |-> [j \in 1..A.c |->
        RDiv(IF (i + j) % 2 = 0 THEN Det(Minor(A, j, i))
                                ELSE RNeg(Det(Minor(A, j, i))), dt)]])
\* numpy.linalg.solve(A, B): A must be square and regular
Solve(A, B) ==
  IF ~AllOk(<<A, B>>) THEN FirstErr(<<A, B>>)
  ELSE IF A.r # A.c THEN Err("LinAlgError")
  ELSE IF B.r # A.r THEN Err("ValueError")
  ELSE IF Det(A) = RZero THEN Err("LinAlgError")
  ELSE Dot(Inverse(A), B)

IsZeroMat(A) == \A i \in 1..A.r : \A j \in 1..A.c : A.a[i][j] = RZero
\* the sum of the squares of the entries (the squared Frobenius norm)
SumSq(A) == RSum([i \in 1..A.r |->
                   RSum([j \in 1..A.c |-> RMul(A.a[i][j], A.a[i][j])], A.c)], A.r)
SumAbs(A) == RSum([i \in 1..A.r |->
                    RSum([j \in 1..A.c |-> RAbs(A.a[i][j])], A.c)], A.r)

\* ------------------------------------------- orthogonal factorizations

Col(A, j) == Mat(A.r, 1, [i \in 1..A.r |-> <<A.a[i][j]>>])
\* A[i0:, j0:] (counted from 1)
Trailing(A, i0, j0) ==
  Mat(A.r - i0 + 1, A.c - j0 + 1,
      [i \in 1..(A.r - i0 + 1) |-> [j \in 1..(A.c - j0 + 1) |->
         A.a[i + i0 - 1][j + j0 - 1]]])
\* diag(I_k, A)
Embed(k, A) ==
  IF ~IsOk(A) THEN A
  ELSE Mat(A.r + k, A.c + k, [i \in 1..(A.r + k) |-> [j \in 1..(A.c + k) |->
         IF i <= k \/ j <= k THEN (IF i = j THEN ROne ELSE RZero)
         ELSE A.a[i - k][j - k]]])

\* The elementary reflector LAPACK builds for a column x (dlarfg): the
\* symmetric orthogonal H = I - tau v v^T with H x = beta e_1, where
\* beta = -sign(x_1) ||x||, and H = I (tau = 0) when x[2:] = 0.
ReflectorOf(m, tau, v) == Sub(eye(m), Scale(tau, Dot(v, TC(v))))
ReflectorTo(x, beta) ==
  ReflectorOf(x.r, RDiv(RSub(beta, x.a[1][1]), beta),
              Mat(x.r, 1, [i \in 1..x.r |->
                <<IF i = 1 THEN ROne
                  ELSE RDiv(x.a[i][1], RSub(x.a[1][1], beta))>>]))
ReflectorNorm(x, nrm2) ==
  IF ~HasRSqrt(nrm2) THEN Err("Irrational")
  ELSE ReflectorTo(x, IF x.a[1][1][1] < 0 THEN RSqrt(nrm2)
                      ELSE RNeg(RSqrt(nrm2)))
Reflector(x) ==
  IF x.r <= 1 \/ IsZeroMat(Trailing(x, 2, 1)) THEN eye(x.r)
  ELSE ReflectorNorm(x, SumSq(x))

\* the first column of largest norm (the pivot of dgeqp3), from the squared
\* norms of the columns
PivotOf(nrm) ==
  CHOOSE p \in 1..Len(nrm) :
    /\ \A j \in 1..Len(nrm) : ~RLess(nrm[p], nrm[j])
    /\ \A j \in 1..(p - 1) : RLess(nrm[j], nrm[p])
Swap(k, p) == [j \in 1..k |-> IF j = 1 THEN p ELSE IF j = p THEN 1 ELSE j]

\* One step of the pivoted factorization of A: the columns swapped so that
\* the pivot is first (sw), the reflector H1 of that column, and
\* Y = H1 A[:, sw].
PivotReflect(sw, Ap, H1) == [sw |-> sw, H1 |-> H1, Y |-> Dot(H1, Ap)]
PivotSwap(sw, Ap) == PivotReflect(sw, Ap, Reflector(Col(Ap, 1)))
PivotAt(A, sw) == PivotSwap(sw, PickCols(A, sw))
PivotStep(A) ==
  PivotAt(A, Swap(A.c, PivotOf([j \in 1..A.c |-> SumSq(Col(A, j))])))
\* what is left to factorize after the step: Y[2:, 2:]
PivotRest(st) == IF ~IsOk(st.Y) THEN zeros(0, 0) ELSE Trailing(st.Y, 2, 2)
\* the factorization of A from its first step and that of Y[2:, 2:]
PivotJoin(A, st, sub) ==
  IF ~IsOk(st.Y) THEN [Q |-> st.Y, R |-> st.Y, P |-> <<>>]
  ELSE IF ~IsOk(sub.Q) THEN sub
  ELSE [Q |-> Dot(st.H1, Embed(1, sub.Q)),
        R |-> VCat(Mat(1, A.c, <<[j \in 1..A.c |->
                     IF j = 1 THEN st.Y.a[1][1]
                     ELSE st.Y.a[1][sub.P[j - 1] + 1]]>>),
                   HCat(zeros(A.r - 1, 1), sub.R)),
        P |-> [j \in 1..A.c |->
                IF j = 1 THEN st.sw[1] ELSE st.sw[sub.P[j - 1] + 1]]]
\* scipy.linalg.qr(A, pivoting=True) with the full Q: A[:, P] = Q R, by
\* Householder reflections with column pivoting.  P counts columns from 1.
RECURSIVE QRPivot(_)
QRPivot(A) ==
  IF A.r = 0 \/ A.c = 0
  THEN [Q |-> eye(A.r), R |-> A, P |-> [j \in 1..A.c |-> j]]
  ELSE PivotJoin(A, PivotStep(A), QRPivot(PivotRest(PivotStep(A))))

\* scipy.linalg.qr(A, mode='economic', pivoting=True)
Economic(f, k) ==
  IF ~IsOk(f.Q) THEN f
  ELSE [Q |-> Cols(f.Q, k), R |-> Rows(f.R, k), P |-> f.P]
qr_economic_pivoting(A) ==
  IF ~IsOk(A) THEN [Q |-> A, R |-> A, P |-> <<>>]
  ELSE Economic(QRPivot(A), Min(A.r, A.c))

\* numpy.argsort(P) of a permutation P: its inverse
argsort(P) == [j \in 1..Len(P) |-> CHOOSE i \in 1..Len(P) : P[i] = j]

\* scipy.linalg.hessenberg(A, calc_q=True) (dgehrd, dorghr): A = T H T^T with
\* H upper Hessenberg; column k is reduced by a reflector G of rows k+1.. .
HessApply(Hm, T, G) ==
  IF ~IsOk(G) THEN [H |-> G, T |-> G, ok |-> FALSE]
  ELSE [H |-> Dot(G, Dot(Hm, G)), T |-> Dot(T, G), ok |-> TRUE]
RECURSIVE HessStep(_, _)
HessStep(f, k) ==
  IF ~f.ok \/ k > f.H.r - 2 THEN f
  ELSE HessStep(HessApply(f.H, f.T,
                  Embed(k, Reflector(Trailing(Col(f.H, k), k + 1, 1)))),
                k + 1)
hessenberg(A) ==
  IF ~IsOk(A) THEN [H |-> A, T |-> A, ok |-> FALSE]
  ELSE IF A.r # A.c
  THEN [H |-> Err("ValueError"), T |-> Err("ValueError"), ok |-> FALSE]
  ELSE HessStep([H |-> A, T |-> eye(A.r), ok |-> TRUE], 1)

\* ---------------------------------------------------------- utils.House

\* utils.House(x): the Householder reflector that rotates the column x onto
\* its first coordinate; apply(X) multiplies X by it from the left.
House(x) ==
  IF ~IsOk(x) THEN x
  ELSE IF x.c # 1 THEN Err("ValueError")
  ELSE Reflector(x)
HouseApply(Q, X) == Dot(Q, X)

Unset == Err("unset")

\* The statements of a method run on a frame: a record of the attributes and
\* locals assigned so far, and "raised", the exception that ended the run
\* ("" while it runs).  Assign stores a value, or raises the exception the
\* value stands for.
Assign(f, name, v) ==
  IF f.raised # "" THEN f
  ELSE IF ~IsOk(v) THEN [f EXCEPT !.raised = v.err]
  ELSE [f EXCEPT ![name] = v]

\* ---------------------------------------------------- utils.Projection

\* ip_B = None: the Euclidean inner product
None == Err("None")

\* utils.inner(X, Y, ip_B): <X, Y> = X^H Y, or X^H B Y for the weight B
inner(X, Y, ip_B) ==
  IF ip_B = None THEN Dot(TC(X), Y) ELSE Dot(TC(X), Dot(ip_B, Y))

\* scipy.linalg.qr(A) and scipy.linalg.qr(A, mode='economic'): Householder
\* reflections without pivoting
PlainStep(A) == PivotAt(A, [j \in 1..A.c |-> j])
RECURSIVE QRPlain(_)
QRPlain(A) ==
  IF A.r = 0 \/ A.c = 0
  THEN [Q |-> eye(A.r), R |-> A, P |-> [j \in 1..A.c |-> j]]
  ELSE PivotJoin(A, PlainStep(A), QRPlain(PivotRest(PlainStep(A))))
qr_full(A) == IF ~IsOk(A) THEN [Q |-> A, R |-> A, P |-> <<>>] ELSE QRPlain(A)
qr_economic(A) ==
  IF ~IsOk(A) THEN [Q |-> A, R |-> A, P |-> <<>>]
  ELSE Economic(QRPlain(A), Min(A.r, A.c))

\* Gram-Schmidt under the inner product ip_B: column i of X, made orthogonal
\* to the columns of f.Q (alpha are its coefficients, v what is left of it) and
\* normalised, is appended to f.Q, and its coefficients to f.R.
GramNormalise(f, alpha, v, nrm2) ==
  IF nrm2 = RZero THEN [Q |-> Err("RankDeficiencyError"),
                        R |-> Err("RankDeficiencyError")]
  ELSE IF ~HasRSqrt(nrm2) THEN [Q |-> Err("Irrational"), R |-> Err("Irrational")]
  ELSE [Q |-> HCat(f.Q, Scale(RDiv(ROne, RSqrt(nrm2)), v)),
        R |-> Bmat22(f.R, alpha, zeros(1, f.R.c), Scalar(RSqrt(nrm2)))]
GramRest(f, alpha, v, ip_B) ==
  GramNormalise(f, alpha, v, inner(v, v, ip_B).a[1][1])
GramColumn(f, x, alpha, ip_B) == GramRest(f, alpha, Sub(x, Dot(f.Q, alpha)), ip_B)
GramAdd(f, x, ip_B) ==
  IF ~IsOk(f.Q) THEN f ELSE GramColumn(f, x, inner(f.Q, x, ip_B), ip_B)
RECURSIVE GramSchmidt(_, _, _)
GramSchmidt(X, ip_B, i) ==
  IF i = 0 THEN [Q |-> zeros(X.r, 0), R |-> zeros(0, 0)]
  ELSE GramAdd(GramSchmidt(X, ip_B, i - 1), Col(X, i), ip_B)

\* utils.qr(X, ip_B): X = Q R with <Q, Q> = I under ip_B
qr(X, ip_B) ==
  IF ~IsOk(X) THEN [Q |-> X, R |-> X]
  ELSE IF ip_B = None /\ X.c > 0 THEN qr_economic(X)
  ELSE GramSchmidt(X, ip_B, X.c)

\* scipy.linalg.solve_triangular(A, b): A is square and triangular
solve_triangular(A, b) == Solve(A, b)

\* Assign of a factorization [Q, R] to two names
Assign2(f, nameQ, nameR, qrf) ==
  Assign(Assign(f, nameQ, qrf.Q), nameR, qrf.R)

\* utils.Projection.__init__(X, Y, ip_B=None): the projection onto range(X)
\* along the orthogonal complement of range(Y); ip_B is the keyword argument,
\* None when the caller passes none
ProjV(o, X) == Assign2(o, "V", "VR", qr(X, o.ip_B))
ProjW(o, Y) == Assign2(o, "W", "WR", qr(Y, o.ip_B))
ProjQR(o) ==
  IF o.raised # "" THEN o
  ELSE Assign2(o, "Q", "R", qr_full(inner(o.W, o.V, o.ip_B)))
Projection__init__(o, X, Y, ip_B) ==
  ProjQR(ProjW(ProjV([o EXCEPT !.ip_B = ip_B], X), Y))

\* ---------------------------------------------------- ObliqueProjection

\* A.adj and A * X of a linear operator given by its matrix
Adj(A) == TC(A)
Apply(A, X) == Dot(A, X)

NewProjection ==
  [A |-> Unset, U |-> Unset, AH_U |-> Unset, ip_B |-> Unset,
   V |-> Unset, VR |-> Unset, W |-> Unset, WR |-> Unset,
   Q |-> Unset, R |-> Unset, raised |-> ""]
\* line 22: U, _ = utils.qr(U, ip_B=ip_B)
Orthonormalise(U, ip_B) == qr(U, ip_B).Q
\* line 26
AH_U_of(A, U) == Apply(Adj(A), U)
\* the keyword argument ip_B that line 29 hands to the Projection
\* constructor: ip_B is a named parameter of ObliqueProjection.__init__, so it
\* is not in **kwargs
SuperIpB(ip_B) == None
Oblique29(o, ip_B) ==
  IF o.raised # "" THEN o
  ELSE Projection__init__(o, o.U, o.AH_U, SuperIpB(ip_B))
\* ObliqueProjection.__init__(A, U, ip_B)
ObliqueProjection(A, U, ip_B) ==
  Oblique29(
    Assign(Assign(Assign(NewProjection, "A", A),
                  "U", Orthonormalise(U, ip_B)),
           "AH_U", AH_U_of(A, Orthonormalise(U, ip_B))),
    ip_B)

\* line 32 with the coefficients taken against AH_U
Coefficients_adjoint(o, z) == inner(o.AH_U, z, o.ip_B)
\* lines 32-36
Coefficients(o, z) == inner(o.U, z, o.ip_B)
Correction33(o, c) == solve_triangular(TC(o.WR), c)
Correction35(o, c) == solve_triangular(o.R, Dot(TC(o.Q), c))
_correction(o, z) == Dot(o.V, Correction35(o, Correction33(o, Coefficients(o, z))))
\* lines 48-49
get_x0(o, pre) ==
  Add(pre.x0, Apply(pre.Mr,
        _correction(o, Apply(pre.Ml, Sub(pre.b, Apply(pre.A, pre.x0))))))

\* ---------------------------------------------------------- Arnoldifyer

\* 1e-14 = 1 / (TolRoot * TolRoot)
TolRoot == 10000000
\* x > 1e-14 * h, for rationals x, h >= 0
GtTol(x, h) == x[1] * h[2] > ((h[1] * x[2]) \div TolRoot) \div TolRoot

\* numpy.linalg.norm(M, 2), the largest singular value of M, is kept as the
\* matrix it is the norm of, with the bounds max|m_ij| <= ||M||_2 <= sum|m_ij|.
RECURSIVE RMaxOf(_, _)
RMaxOf(f, k) == IF k = 0 THEN RZero
                ELSE IF RLess(RMaxOf(f, k - 1), f[k]) THEN f[k]
                ELSE RMaxOf(f, k - 1)
MaxAbs(A) == RMaxOf([i \in 1..A.r |->
                      RMaxOf([j \in 1..A.c |-> RAbs(A.a[i][j])], A.c)], A.r)
norm2(M) == IF ~IsOk(M) THEN M ELSE [err |-> "", of |-> M]
\* abs(x) > 1e-14 * A_norm: "yes" or "no" where the bounds of the norm decide
\* it, "Irrational" in between
AboveTol(x, A_norm) ==
  IF GtTol(RAbs(x), SumAbs(A_norm.of)) THEN "yes"
  ELSE IF ~GtTol(RAbs(x), MaxAbs(A_norm.of)) THEN "no"
  ELSE "Irrational"

\* line 84 with a fallback: a zero EinvC where E is singular
EinvC_fallback(d, n, E, C) ==
  IF d > 0 /\ E.r = E.c /\ E.r > 0 /\ Det(E) = RZero THEN zeros(d, n)
  ELSE IF d > 0 THEN Solve(E, C) ELSE zeros(0, n)
\* line 84
EinvC_of(d, n, E, C) == IF d > 0 THEN Solve(E, C) ELSE zeros(0, n)
\* lines 85-86
L_of(n, d, H, EinvC) == Bmat22(H, zeros(n + 1, d), EinvC, eye(d))
\* lines 87-88
J_of(n, d, B_, E) == Bmat22(eye2(n, n + 1), Rows(B_, n), zeros(d, n + 1), E)
\* lines 89-92 without the term B_ EinvC of the leading block
M_uncoupled(n, H, B_, C, E, EinvC) ==
  Bmat22(Cols(Rows(H, n), n), Rows(B_, n), C, E)
\* lines 89-92
M_of(n, H, B_, C, E, EinvC) ==
  Bmat22(Add(Cols(Rows(H, n), n), Dot(Rows(B_, n), EinvC)), Rows(B_, n), C, E)
\* line 97: the pivoted factorization of the part of AU outside U and V
QR_of(V, U, AU, B_, E) ==
  qr_economic_pivoting(Sub(Sub(AU, Dot(U, E)), Dot(V, B_)))
\* line 102, from the diagonal of R: the number of entries above the
\* tolerance, or -1 where the bounds of A_norm do not decide it
Diag(R) == [i \in 1..Min(R.r, R.c) |-> R.a[i][i]]
CountAbove(above) ==
  IF \E i \in 1..Len(above) : above[i] = "Irrational" THEN -1
  ELSE Cardinality({i \in 1..Len(above) : above[i] = "yes"})
l_of(R, A_norm) ==
  CountAbove([i \in 1..Min(R.r, R.c) |-> AboveTol(Diag(R)[i], A_norm)])
\* lines 106-109
N_of(n, d, l, B_, R12, P_inv) ==
  Dot(Bmat22(Scalar(ROne), LastRow(B_), zeros(l, 1), PickCols(R12, P_inv)),
      HCat(zeros(d + 1, n), eye(d + 1)))
\* lines 112-113
N_trivial(n) == HCat(zeros(1, n), eye(1))
\* line 116 without the basis Q1
Z_short(V, Q1) == LastCol(V)
\* line 116
Z_of(V, Q1) == HCat(LastCol(V), Q1)

\* lines 97-109, from the factorization f: N, and the local Q1
Residual(o, f, l) ==
  IF ~IsOk(f.Q) THEN [o EXCEPT !.raised = f.Q.err]
  ELSE IF l < 0 THEN [o EXCEPT !.raised = "Irrational"]
  ELSE Assign([o EXCEPT !.Q1 = Cols(f.Q, l)], "N",
              N_of(o.n, o.d, l, o.B_, Rows(f.R, l), argsort(f.P)))
ResidualQR(o, f) == Residual(o, f, IF IsOk(f.R) THEN l_of(f.R, o.A_norm) ELSE 0)

\* lines 68-81: the dimensions and the stored arguments
Stored(V, U, AU, H, B_, C, E, Pv_norm, U_v) ==
  [n |-> H.c, invariant |-> (H.r = H.c), d |-> U.c,
   V |-> V, U |-> U, AU |-> AU, H |-> H, B_ |-> B_, C |-> C,
   E |-> E, Pv_norm |-> Pv_norm, U_v |-> U_v,
   L |-> Unset, J |-> Unset, M |-> Unset, A_norm |-> Unset,
   N |-> Unset, Z |-> Unset, raised |-> "",
   EinvC |-> Unset, Q1 |-> Unset]
Init84(o) == Assign(o, "EinvC", EinvC_of(o.d, o.n, o.E, o.C))
Init85(o) == Assign(o, "L", L_of(o.n, o.d, o.H, o.EinvC))
Init87(o) == Assign(o, "J", J_of(o.n, o.d, o.B_, o.E))
Init89(o) == Assign(o, "M", M_of(o.n, o.H, o.B_, o.C, o.E, o.EinvC))
Init93(o) == Assign(o, "A_norm", norm2(o.M))
Init95(o) ==
  IF o.raised # "" THEN o
  ELSE IF o.d > 0 THEN ResidualQR(o, QR_of(o.V, o.U, o.AU, o.B_, o.E))
  ELSE Assign([o EXCEPT !.Q1 = zeros(o.U.r, 0)], "N", N_trivial(o.n))
Init116(o) == Assign(o, "Z", Z_of(o.V, o.Q1))
\* the object without the locals of the constructor
Attributes(o) ==
  [n |-> o.n, invariant |-> o.invariant, d |-> o.d,
   V |-> o.V, U |-> o.U, AU |-> o.AU, H |-> o.H, B_ |-> o.B_, C |-> o.C,
   E |-> o.E, Pv_norm |-> o.Pv_norm, U_v |-> o.U_v,
   L |-> o.L, J |-> o.J, M |-> o.M, A_norm |-> o.A_norm,
   N |-> o.N, Z |-> o.Z, raised |-> o.raised]

\* Arnoldifyer.__init__: the object with the attributes assigned up to the
\* first exception, which "raised" names ("" when the constructor returns)
Arnoldifyer(V, U, AU, H, B_, C, E, Pv_norm, U_v) ==
  Attributes(Init116(Init95(Init93(Init89(Init87(Init85(Init84(
    Stored(V, U, AU, H, B_, C, E, Pv_norm, U_v)))))))))

\* line 124
PtE_of(o, Wt) == Dot(TC(Wt), Dot(o.M, Wt))
\* lines 125-126 with an identity of n + d rows
Pt_small(o, Wt, PtE) ==
  Sub(eye(o.n + o.d),
      Dot(o.L, Dot(Wt, Solve(PtE, Dot(TC(Wt), o.J)))))
\* lines 125-126
Pt_of(o, Wt, PtE) ==
  Sub(eye(o.n + o.d + 1),
      Dot(o.L, Dot(Wt, Solve(PtE, Dot(TC(Wt), o.J)))))
\* lines 127-131 with the solve against E taken for every d
qt_always(o, Pt) ==
  Dot(Pt, VCat(VCat(Scalar(o.Pv_norm), zeros(o.n, 1)), Solve(o.E, o.U_v)))
\* lines 127-131
qt_of(o, Pt) ==
  IF o.d > 0
  THEN Dot(Pt, VCat(VCat(Scalar(o.Pv_norm), zeros(o.n, 1)), Solve(o.E, o.U_v)))
  ELSE Dot(Pt, VCat(Scalar(o.Pv_norm), zeros(o.n, 1)))
\* line 138
LQ_of(o, Q) == TC(HouseApply(Q, TC(o.L)))
\* lines 139-140
Hess_of(o, Q, Pt, LQ) == hessenberg(Dot(HouseApply(Q, o.J), Dot(Pt, LQ)))
\* line 144 without the projection Pt
R_unprojected(o, Pt, QT) == Dot(o.N, Dot(o.L, QT))
\* line 144
R_of(o, Pt, QT) == Dot(o.N, Dot(Pt, Dot(o.L, QT)))
\* line 147
Vh_of(o, QT) == Dot(HCat(Cols(o.V, o.n), o.U), QT)
\* line 148
F_of(o, R, Vh) == Neg(Dot(o.Z, Dot(R, TC(Vh))))
\* line 149
F_sym(F) == Add(F, TC(F))

\* the locals of get
Locals(Wt, full) ==
  [Wt |-> Wt, full |-> full, raised |-> "", PtE |-> Unset, Pt |-> Unset,
   qt |-> Unset, q |-> Unset, Q |-> Unset, LQ |-> Unset, H |-> Unset,
   T |-> Unset, QT |-> Unset, R |-> Unset, Vh |-> Unset, F |-> Unset]
Get124(o, f) == Assign(f, "PtE", PtE_of(o, f.Wt))
Get125(o, f) == Assign(f, "Pt", Pt_of(o, f.Wt, f.PtE))
Get127(o, f) == Assign(f, "qt", qt_of(o, f.Pt))
Get132(o, f) == Assign(f, "q", Dot(o.J, f.qt))
Get135(o, f) == Assign(f, "Q", House(f.q))
Get138(o, f) == Assign(f, "LQ", LQ_of(o, f.Q))
GetHT(f, hs) == Assign(Assign(f, "H", hs.H), "T", hs.T)
Get139(o, f) == IF f.raised # "" THEN f
                ELSE GetHT(f, Hess_of(o, f.Q, f.Pt, f.LQ))
Get141(o, f) == Assign(f, "QT", HouseApply(f.Q, f.T))
Get144(o, f) == Assign(f, "R", R_of(o, f.Pt, f.QT))
Get147(o, f) == IF ~f.full THEN f ELSE Assign(f, "Vh", Vh_of(o, f.QT))
Get148(o, f) == IF ~f.full THEN f ELSE Assign(f, "F", F_of(o, f.R, f.Vh))
Get149(o, f) == IF ~f.full THEN f ELSE Assign(f, "F", F_sym(f.F))

NoReturn == [raised |-> "", full |-> FALSE, H |-> Unset, R |-> Unset,
             Vh |-> Unset, F |-> Unset]
\* lines 150-151: the tuple returned, or the exception raised
Return(f) ==
  IF f.raised # "" THEN [NoReturn EXCEPT !.raised = f.raised]
  ELSE [raised |-> "", full |-> f.full, H |-> f.H, R |-> f.R,
        Vh |-> f.Vh, F |-> f.F]
\* lines 124-149: the locals when get returns or raises
get_locals(o, Wt, full) ==
  Get149(o, Get148(o, Get147(o, Get144(o, Get141(o, Get139(o,
    Get138(o, Get135(o, Get132(o, Get127(o, Get125(o, Get124(o,
      Locals(Wt, full)))))))))))))
\* Arnoldifyer.get(Wt, full): what it returns, or the exception it raises
get(o, Wt, full) == Return(get_locals(o, Wt, full))

\* ------------------------------------------------------------- inputs

\* the entries of the inputs range over 0..MaxEntry
MaxEntry == 2

\* the N x k matrix of the unit vectors e_from, ..., e_(from+k-1)
Basis(N, from, k) ==
  Mat(N, k, [i \in 1..N |-> [j \in 1..k |->
               IF i = from + j - 1 THEN ROne ELSE RZero]])

\* (n, d, invariant): the Krylov size, the deflation dimension, and whether
\* H is the square H_n of the invariant case
Shapes ==
  { <<1, 0, FALSE>>, <<2, 0, FALSE>>, <<1, 1, FALSE>>,
    <<1, 0, TRUE>>, <<1, 1, TRUE>> }
\* the shapes with n + d = 3, where the Hessenberg reduction has a column to
\* reflect
LargeShapes == { <<2, 1, FALSE>>, <<3, 0, FALSE>> }

\* The arguments of the constructor for a shape: V and U are unit vectors of
\* an ambient space of dimension N = n + d + 2 (so V_(n+1) and U are
\* orthonormal and one direction, e_N, lies outside both), H is upper
\* Hessenberg with h on the diagonal and 1 beside it, B_ holds b in its first
\* n rows and 1 in its last, C holds c, E is e on its diagonal; AU, as the
\* docstring defines B_ = <V, AU> and E = <U, AU>, is U E + V B_ + X with the
\* residual part X = x e_N; junk > 0 replaces AU and U_v by arrays of another
\* shape.
Arguments(sh, h, b, c, e, x, junk) ==
  LET n == sh[1]
      d == sh[2]
      N == n + d + 2
      hr == IF sh[3] THEN n ELSE n + 1
      V == Basis(N, 1, hr)
      U == Basis(N, n + 2, d)
      H == Mat(hr, n, [i \in 1..hr |-> [j \in 1..n |->
             IF i = j THEN RInt(h)
             ELSE IF i = j + 1 \/ j = i + 1 THEN ROne ELSE RZero]])
      B_ == Mat(hr, d, [i \in 1..hr |-> [j \in 1..d |->
              IF i <= n THEN RInt(b) ELSE ROne]])
      C == Mat(d, n, [i \in 1..d |-> [j \in 1..n |-> RInt(c)]])
      E == Scale(RInt(e), eye(d))
      X == Mat(N, d, [i \in 1..N |-> [j \in 1..d |->
             IF i = N /\ j = 1 THEN RInt(x) ELSE RZero]])
      AU == Add(Add(Dot(U, E), Dot(V, B_)), X)
  IN  [V |-> V, U |-> U, H |-> H, B_ |-> B_, C |-> C, E |-> E,
       AU |-> IF junk > 0 THEN Scale(RInt(junk), Basis(N, 1, 1)) ELSE AU,
       Pv_norm |-> ROne,
       U_v |-> IF junk > 0 THEN Scale(RInt(junk), eye(1))
               ELSE Mat(d, 1, [i \in 1..d |-> <<ROne>>])]

ArgumentSets ==
  { Arguments(sh, h, b, c, e, x, 0) :
      sh \in {s \in Shapes : s[2] > 0}, h \in 0..MaxEntry, b \in 0..1,
      c \in 0..1, e \in 0..MaxEntry, x \in {0, MaxEntry} }
  \cup
  { Arguments(sh, h, 0, 0, 0, 0, junk) :
      sh \in {s \in Shapes : s[2] = 0}, h \in 0..MaxEntry, junk \in 0..MaxEntry }
  \cup
  { Arguments(sh, h, 1, 1, e, x, 0) :
      sh \in {s \in LargeShapes : s[2] > 0}, h \in 0..MaxEntry,
      e \in {1, MaxEntry}, x \in {0, MaxEntry} }
  \cup
  { Arguments(sh, h, 0, 0, 0, 0, junk) :
      sh \in {s \in LargeShapes : s[2] = 0}, h \in 0..MaxEntry, junk \in 0..1 }

\* the reduction matrices handed to get for a builder with m = n + d: single
\* unit vectors, the identity, a vector that is not normalised, and the
\* (m+1)-row matrices of the same kinds
WtSet(m) ==
  { Basis(m, i, 1) : i \in 1..m }
  \cup { eye(m), eye2(m + 1, m), eye(m + 1), Basis(m + 1, 1, 1) }
  \cup (IF m = 2 THEN { IntMat(1, <<<<3>>, <<4>>>>) } ELSE {})

\* the arguments of ObliqueProjection: an operator on a plane, a vector
\* spanning the deflation space, and the inner product (None or a weight);
\* the first row of A is a multiple of (3, 0) or (3, 4), whose norm is
\* rational
Weight == IntMat(2, <<<<1, 0>>, <<0, 4>>>>)
ProjectionArguments ==
  { [A |-> IntMat(2, <<<<3 * a, 4 * a * b>>, <<c, d>>>>), U |-> U,
     ip_B |-> ip_B] :
      a \in 1..MaxEntry, b \in 0..1, c \in 0..1, d \in 1..MaxEntry,
      U \in { IntMat(1, <<<<1>>, <<0>>>>), IntMat(1, <<<<0>>, <<2>>>>),
              IntMat(1, <<<<3>>, <<4>>>>) },
      ip_B \in {None, Weight} }
\* the solver states handed to get_x0 for a projection built on A
Preconditioners == { eye(2), IntMat(2, <<<<2, 0>>, <<0, 1>>>>) }
SolverStates(A) ==
  { [A |-> A, Ml |-> Ml, Mr |-> Mr, b |-> b, x0 |-> x0] :
      Ml \in Preconditioners, Mr \in Preconditioners,
      b \in { IntMat(1, <<<<1>>, <<0>>>>), IntMat(1, <<<<1>>, <<1>>>>) },
      x0 \in { zeros(2, 1), IntMat(1, <<<<0>>, <<1>>>>) } }

\* -------------------------------------------------------------- the state

VARIABLES
  args,      \* the arguments the Arnoldifyer is constructed from
  pc,        \* "new": not yet constructed, "built", "failed": __init__ raised
  obj,       \* the Arnoldifyer object
  call,      \* the last call of get: [Wt, full]
  ret,       \* what it returned or raised
  failed,    \* whether a get on this object has raised LinAlgError
  pargs,     \* the arguments the ObliqueProjection is constructed from
  ppc,       \* "new", "built", "failed", and "got" after a get_x0
  proj,      \* the ObliqueProjection object
  pre,       \* the solver state of the last get_x0
  xc         \* the corrected initial guess it returned

arnoldi == <<args, pc, obj, call, ret, failed>>
oblique == <<pargs, ppc, proj, pre, xc>>
vars == <<args, pc, obj, call, ret, failed, pargs, ppc, proj, pre, xc>>

NoObject == [raised |-> "none"]
NoCall == [Wt |-> Unset, full |-> FALSE]
NoArguments == [none |-> TRUE]

ArnoldiIdle ==
  /\ args = NoArguments
  /\ pc = "none"
  /\ obj = NoObject
  /\ call = NoCall
  /\ ret = NoReturn
  /\ failed = FALSE
ObliqueIdle ==
  /\ pargs = NoArguments
  /\ ppc = "none"
  /\ proj = NoObject
  /\ pre = NoArguments
  /\ xc = Unset

Init ==
  /\ args \in ArgumentSets
  /\ pc = "new"
  /\ obj = NoObject
  /\ call = NoCall
  /\ ret = NoReturn
  /\ failed = FALSE
  /\ ObliqueIdle

New(a) == Arnoldifyer(a.V, a.U, a.AU, a.H, a.B_, a.C, a.E, a.Pv_norm, a.U_v)

\* Arnoldifyer(V, U, AU, H, B_, C, E, Pv_norm, U_v)
Construct ==
  /\ pc = "new"
  /\ \E o \in {New(args)} :
       /\ o.raised # "Irrational"
       /\ obj' = o
       /\ pc' = IF o.raised = "" THEN "built" ELSE "failed"
  /\ UNCHANGED <<args, call, ret, failed>>
  /\ UNCHANGED oblique

\* get keeping its PtE in the attribute M
get_stores(o, Wt, full) ==
  IF IsOk(PtE_of(o, Wt)) THEN [o EXCEPT !.M = PtE_of(o, Wt)] ELSE o
\* lines 118-151: the object after get(Wt, full), which assigns no attribute
get_self(o, Wt, full) == o

\* obj.get(Wt, full)
Get(Wt, full) ==
  /\ pc = "built"
  /\ \E g \in {get(obj, Wt, full)} :
       /\ g.raised # "Irrational"
       /\ ret' = g
       /\ failed' = (failed \/ g.raised = "LinAlgError")
  /\ obj' = get_self(obj, Wt, full)
  /\ call' = [Wt |-> Wt, full |-> full]
  /\ UNCHANGED <<args, pc>>
  /\ UNCHANGED oblique

Next ==
  \/ Construct
  \/ /\ pc = "built"
     /\ \E Wt \in WtSet(obj.n + obj.d), full \in BOOLEAN : Get(Wt, full)

Spec == Init /\ [][Next]_vars

InitOblique ==
  /\ ArnoldiIdle
  /\ pargs \in ProjectionArguments
  /\ ppc = "new"
  /\ proj = NoObject
  /\ pre = NoArguments
  /\ xc = Unset

\* ObliqueProjection(A, U, ip_B=ip_B)
ConstructOblique ==
  /\ ppc = "new"
  /\ \E o \in {ObliqueProjection(pargs.A, pargs.U, pargs.ip_B)} :
       /\ o.raised # "Irrational"
       /\ proj' = o
       /\ ppc' = IF o.raised = "" THEN "built" ELSE "failed"
  /\ UNCHANGED <<pargs, pre, xc>>
  /\ UNCHANGED arnoldi

\* proj.get_x0(pre)
GetX0(p) ==
  /\ ppc \in {"built", "got"}
  /\ pre' = p
  /\ xc' = get_x0(proj, p)
  /\ ppc' = "got"
  /\ UNCHANGED <<pargs, proj>>
  /\ UNCHANGED arnoldi

NextOblique ==
  \/ ConstructOblique
  \/ \E p \in SolverStates(pargs.A) : GetX0(p)

SpecOblique == InitOblique /\ [][NextOblique]_vars

\* ------------------------------------------------------------ properties

\* The operator the arguments describe, on the basis [V_n, U]: as B_, C and
\* E are the inner products of the docstring (lines 56-63) and V_(n+1) is an
\* Arnoldi basis of the deflated operator, A V_n = V_(n+1) H + AU E^-1 C and
\* A U = AU; A is zero outside the span of [V_n, U].
OpA ==
  IF args.U.c = 0
  THEN Dot(Dot(args.V, args.H), TC(Cols(args.V, args.H.c)))
  ELSE Dot(HCat(Add(Dot(args.V, args.H),
                    Dot(args.AU, Solve(args.E, args.C))), args.AU),
           TC(HCat(Cols(args.V, args.H.c), args.U)))
\* the subspace [V_n, U] Wt of the last call, and the projection
\* P = I - A W (W^H A W)^-1 W^H along it
What == Dot(HCat(Cols(obj.V, obj.n), obj.U), call.Wt)
ProjectedOut ==
  Sub(eye(obj.V.r),
      Dot(Dot(OpA, What),
          Solve(Dot(TC(What), Dot(OpA, What)), TC(What))))

Called == pc = "built" /\ call # NoCall
Returned == Called /\ ret.raised = ""
ReturnedFull == Returned /\ ret.full
Reduced == Add(Dot(ret.Vh, ret.H), Dot(obj.Z, ret.R))

\* C1 as stated: after every get(Wt, full=True) that returns,
\* A Vh = Vh H_reduced + Z R_reduced.
C1_Relation == ReturnedFull => Dot(OpA, ret.Vh) = Reduced

\* C1: after every get(Wt, full=True) that returns, the relation holds for
\* the operator projected along the reduction subspace W = [V_n, U] Wt:
\* P A Vh = Vh H_reduced + Z R_reduced with P = I - A W (W^H A W)^-1 W^H.
C1_ProjectedRelation ==
  ReturnedFull => Dot(ProjectedOut, Dot(OpA, ret.Vh)) = Reduced
C1_Witness ==
  /\ ReturnedFull
  /\ obj.n = 2
  /\ obj.d = 1
  /\ obj.Z.c = 2
  /\ call.Wt.c = 1
  /\ get_locals(obj, call.Wt, TRUE).T # eye(3)
  /\ ~IsZeroMat(ret.R)
  /\ Dot(OpA, ret.Vh) # Reduced

\* the effective residual Ml (b - A x_corrected) of the last get_x0, and the
\* plain residual b - A x_corrected
Corrected == ppc = "got" /\ IsOk(xc)
Residual_eff == Apply(pre.Ml, Sub(pre.b, Apply(pre.A, xc)))
Residual_plain == Sub(pre.b, Apply(pre.A, xc))
Unpreconditioned == pre.Ml = eye(2) /\ pre.Mr = eye(2)

\* C2 as stated: after get_x0 the effective residual has zero inner product
\* with every column of AH_U.
C2_OrthogonalToAHU ==
  Corrected => IsZeroMat(inner(proj.AH_U, Residual_eff, pargs.ip_B))

\* C2: after get_x0 with Ml = Mr = I, the residual b - A x_corrected has
\* zero Euclidean inner product with every column of the stored U.
C2_OrthogonalToU ==
  (Corrected /\ Unpreconditioned)
    => IsZeroMat(Dot(TC(proj.U), Residual_plain))
C2_Witness ==
  /\ Corrected
  /\ Unpreconditioned
  /\ xc # pre.x0
  /\ pargs.ip_B = None
  /\ ~IsZeroMat(Dot(TC(proj.AH_U), Residual_plain))

\* C3 as stated: get with a Wt of n+d+1 rows and k <= n+d+1 columns raises
\* no dimension-mismatch error.
C3_TallWtAccepted ==
  (Called /\ call.Wt.r = obj.n + obj.d + 1 /\ call.Wt.c <= obj.n + obj.d + 1)
    => ret.raised # "ValueError"

\* C3: get with a Wt of n+d rows and 1 <= k <= n+d columns raises no
\* dimension-mismatch error, and get with a Wt of n+d+1 rows raises one.
C3_WtShape ==
  Called =>
    /\ (call.Wt.r = obj.n + obj.d /\ call.Wt.c >= 1
          /\ call.Wt.c <= obj.n + obj.d)
         => ret.raised \notin {"ValueError", "IndexError"}
    /\ call.Wt.r = obj.n + obj.d + 1 => ret.raised = "ValueError"
C3_Witness ==
  /\ Returned
  /\ obj.n + obj.d = 2
  /\ call.Wt.r = 2
  /\ call.Wt.c = 1

\* C4: the constructor completes for a square H (n x n) with B_ of n rows
\* and V of n columns, with invariant set and L, J, M, N, Z assembled.
C4_InvariantSupported ==
  (pc \in {"built", "failed"} /\ obj.invariant
     /\ (obj.d = 0 \/ Det(obj.E) # RZero))
    => /\ pc = "built"
       /\ obj.L.r = obj.n + obj.d
       /\ obj.M.r = obj.n + obj.d

\* C5: the inner product the constructed projector keeps as self.ip_B, which
\* Projection and _correction use, is the ip_B given to the constructor.
C5_SameInnerProduct ==
  ppc \in {"built", "got"} => proj.ip_B = pargs.ip_B

\* C6: after any sequence of get calls, failed ones included, the object
\* equals the one construction made, and the last get returned what the same
\* call returns on a freshly constructed builder.
C6_GetFrame ==
  pc = "built" =>
    /\ obj = New(args)
    /\ call # NoCall => ret = get(New(args), call.Wt, call.full)
C6_Witness ==
  /\ Returned
  /\ failed
  /\ obj.d > 0

Derived(o) == <<o.L, o.J, o.M, o.A_norm, o.N, o.Z>>
\* C7: construction with d > 0 and a singular E raises the LinAlgError of
\* the solve with none of L, J, M, A_norm, N, Z assigned; construction with
\* d = 0 never raises it.
C7_SingularE ==
  pc \in {"built", "failed"} =>
    /\ (obj.d > 0 /\ obj.E.r = obj.d /\ obj.E.c = obj.d /\ obj.C.r = obj.d
          /\ Det(obj.E) = RZero)
         => /\ pc = "failed"
            /\ obj.raised = "LinAlgError"
            /\ Derived(obj) = <<Unset, Unset, Unset, Unset, Unset, Unset>>
    /\ obj.d = 0 => obj.raised # "LinAlgError"
C7_Witness ==
  /\ pc = "failed"
  /\ obj.d > 0
  /\ Det(obj.E) = RZero
  /\ ~obj.invariant

\* the builder for the same V, H and Pv_norm with empty AU and U_v
Undeflated == New([args EXCEPT !.AU = zeros(args.V.r, 0), !.U_v = zeros(0, 1)])
\* C8: with d = 0, N is the selector of the last coordinate, Z the last
\* column of V, and get returns the H_reduced and R_reduced of the builder
\* with the same V, H and Pv_norm whatever AU and U_v are.
C8_Undeflated ==
  (pc = "built" /\ obj.d = 0) =>
    /\ obj.N = HCat(zeros(1, obj.n), eye(1))
    /\ obj.Z = LastCol(obj.V)
    /\ Called =>
         \E g \in {get(Undeflated, call.Wt, call.full)} :
           /\ ret.raised = g.raised
           /\ ret.H = g.H
           /\ ret.R = g.R
C8_Witness ==
  /\ Returned
  /\ obj.d = 0
  /\ obj.AU.c = 1
  /\ obj.AU # zeros(obj.V.r, 1)
  /\ ~IsZeroMat(ret.R)

\* C9: a constructed non-invariant builder has M = J L, and for every Wt
\* with Wt^H M Wt invertible, Pt is idempotent and Wt^H J Pt = 0.
C9_Projection ==
  (pc = "built" /\ ~obj.invariant) =>
    /\ obj.M = Dot(obj.J, obj.L)
    /\ \A Wt \in WtSet(obj.n + obj.d) :
         \E Pt \in {Pt_of(obj, Wt, PtE_of(obj, Wt))} :
           IsOk(Pt) => /\ Dot(Pt, Pt) = Pt
                       /\ IsZeroMat(Dot(TC(Wt), Dot(obj.J, Pt)))
C9_Witness ==
  /\ Returned
  /\ obj.d > 0
  /\ call.Wt.c < obj.n + obj.d
  /\ Pt_of(obj, call.Wt, PtE_of(obj, call.Wt)) # eye(obj.n + obj.d + 1)

Shape(A) == <<A.r, A.c>>
\* C10: for a non-invariant builder and a Wt of n+d rows for which get
\* returns, H_reduced is (n+d) x (n+d), R_reduced is (1+l) x (n+d) with
\* 0 <= l <= d and Z of 1+l columns, with full=True Vh is N x (n+d) and F is
\* N x N, and H_reduced and R_reduced are those of the call with the other
\* value of full.
C10_Shapes ==
  (Returned /\ ~obj.invariant /\ call.Wt.r = obj.n + obj.d) =>
    /\ Shape(ret.H) = <<obj.n + obj.d, obj.n + obj.d>>
    /\ Shape(ret.R) = <<obj.Z.c, obj.n + obj.d>>
    /\ obj.Z.c >= 1
    /\ obj.Z.c <= 1 + obj.d
    /\ ret.full => /\ Shape(ret.Vh) = <<obj.V.r, obj.n + obj.d>>
                   /\ Shape(ret.F) = <<obj.V.r, obj.V.r>>
    /\ \E g \in {get(obj, call.Wt, ~ret.full)} :
         ret.H = g.H /\ ret.R = g.R
C10_Witness ==
  /\ ReturnedFull
  /\ obj.n + obj.d = 3
  /\ obj.Z.c = 2
  /\ call.Wt.c = 1
  /\ Shape(ret.R) = <<2, 3>>
  /\ Shape(ret.F) = <<5, 5>>
====
